---------------------------- MODULE Spec2Model ----------------------------
(***************************************************************************)
(* Model of src/src/interval.rs: the `Interval` stream of signum-miner, a  *)
(* variant of tokio's Interval that delays the next item from the moment   *)
(* the consumer asks for it.                                               *)
(*                                                                         *)
(* Time is a discrete clock.  The Interval owns one tokio `Delay`, of      *)
(* which the model keeps the deadline; the timer subsystem behind it is    *)
(* either working or failed with a tokio::timer::Error.  One consumer task *)
(* drives the stream: it requests a value (first poll), is parked on       *)
(* NotReady, and is polled again when the timer notifies it, or            *)
(* spuriously.  A consumer that gets an error gives the stream up.         *)
(***************************************************************************)
EXTENDS Integers, Sequences, FiniteSets, TLC

(* ------------------------------ bounds -------------------------------- *)
MaxClock == 16
MaxPeriod == 3
MaxAt == 2
MaxStart == 1
MaxYields == 2
MaxDisturb == 1

Periods == 0..MaxPeriod
Instants == 0..MaxAt
TimerErrors == {"shutdown", "at_capacity"}

VARIABLES
    clock,      \* Instant::now() / clock::now()
    handle,     \* "none" before construction, "live", or "panicked"
    delay,      \* Interval.delay: its deadline, and which Delay instance it is
    duration,   \* Interval.duration
    state,      \* Interval.state: "Delaying" or "Awaiting"
    pc,         \* consumer task: "idle" (not waiting), "parked" (got NotReady)
                \* or "failed" (got an error and gave the stream up)
    result,     \* what the last poll returned
    ctor,       \* history: how the Interval was constructed
    lastPoll,   \* history: phase at the start of the last poll, and whether
                \* the deadline armed before it had elapsed
    used,       \* history: late ticks, spurious polls and timer failures so far
    requestAt,  \* history: clock of the last request for a value
    armedAt,    \* history: clock of the last delay.reset
    yielded     \* history: the values the stream produced

vars == <<clock, handle, delay, duration, state, pc, result,
          ctor, lastPoll, used, requestAt, armedAt, yielded>>

(* --------------------------- poll results ----------------------------- *)
NoResult == [kind |-> "none", some |-> FALSE, value |-> 0, err |-> "none"]
NotReady == [kind |-> "NotReady", some |-> FALSE, value |-> 0, err |-> "none"]
ReadySome(t) == [kind |-> "Ready", some |-> TRUE, value |-> t, err |-> "none"]
ReadyNone == [kind |-> "Ready", some |-> FALSE, value |-> 0, err |-> "none"]
Err(e) == [kind |-> "Err", some |-> FALSE, value |-> 0, err |-> e]

(* ---------------------------- construction ---------------------------- *)
ValidDurationOrZero(d) == d >= 0

\* assert!(duration > Duration::new(0, 0))
ValidDuration(d) == d > 0

\* Delay::new(at): the one Delay instance the Interval is built with
DelayNew(at) == [deadline |-> at, id |-> 1]

\* Interval { delay, duration, state: State::Delaying }
new_with_delay(d, dur) ==
    /\ delay' = d
    /\ duration' = dur
    /\ state' = "Delaying"

Construct(kind, at, dur) ==
    /\ handle = "none"
    /\ ctor' = [kind |-> kind, at |-> at, period |-> dur, clock |-> clock]
    /\ IF ValidDuration(dur)
         THEN /\ handle' = "live"
              /\ new_with_delay(DelayNew(at), dur)
         ELSE /\ handle' = "panicked"
              /\ UNCHANGED <<delay, duration, state>>
    /\ UNCHANGED <<clock, pc, result, lastPoll, used, requestAt, armedAt,
                   yielded>>

\* Interval::new(at, duration)
New(at, dur) == Construct("new", at, dur)

\* Interval::new_interval(duration)
NewInterval(dur) == Construct("new_interval", clock + dur, dur)

(* -------------------------------- poll -------------------------------- *)
ResetToPreviousPlusDuration(now, instantNow, dur) == now + dur

ResetToPrevious(now, instantNow, dur) == now

\* the instant handed to self.delay.reset in State::Delaying
ResetDeadline(now, instantNow, dur) == instantNow + dur

RearmsAlways(s) == TRUE

\* State::Delaying is the arm of the match that calls self.delay.reset
Rearms(s) == s = "Delaying"

\* self.delay.reset(deadline): the same Delay, armed anew
Reset(d, deadline) == [d EXCEPT !.deadline = deadline]

NextStateStuck(s) == "Delaying"

\* the match on self.state
NextState(s) == IF s = "Delaying" THEN "Awaiting" ELSE "Delaying"

DelayPollEarly(deadline, instantNow, tm) ==
    IF tm # "ok" THEN Err(tm)
    ELSE IF instantNow + 1 >= deadline THEN ReadySome(deadline)
    ELSE NotReady

\* self.delay.poll(): the Delay is done once the clock has reached its deadline
DelayPoll(deadline, instantNow, tm) ==
    IF tm # "ok" THEN Err(tm)
    ELSE IF instantNow >= deadline THEN ReadySome(deadline)
    ELSE NotReady

TryReadySwallow(r, now) ==
    IF r.kind = "Ready" THEN ReadySome(now) ELSE NotReady

\* try_ready!(self.delay.poll()); Ok(Some(now).into())
TryReady(r, now) ==
    IF r.kind = "Ready" THEN ReadySome(now)
    ELSE IF r.kind = "NotReady" THEN NotReady
    ELSE Err(r.err)

\* <Interval as Stream>::poll, on a timer that is in state tm
Poll(tm) ==
    LET now == delay.deadline
        rearm == Rearms(state)
        armed == IF rearm
                   THEN Reset(delay, ResetDeadline(now, clock, duration))
                   ELSE delay
        res == TryReady(DelayPoll(armed.deadline, clock, tm), now)
    IN /\ handle = "live"
       /\ delay' = armed
       /\ state' = NextState(state)
       /\ result' = res
       /\ pc' = CASE res.kind = "NotReady" -> "parked"
                  [] res.kind = "Err" -> "failed"
                  [] OTHER -> "idle"
       /\ lastPoll' = [phase |-> state, elapsed |-> clock >= now]
       /\ armedAt' = IF rearm THEN clock ELSE armedAt
       /\ yielded' = IF res.kind = "Ready" /\ res.some
                       THEN Append(yielded, [value |-> res.value, at |-> clock,
                                             req |-> requestAt', armed |-> armedAt'])
                       ELSE yielded
       /\ UNCHANGED <<clock, handle, duration, ctor>>

\* the Delay's deadline has elapsed: the timer notifies the parked task
Elapsed == clock >= delay.deadline

\* the consumer asks for the next value
Request(tm) ==
    /\ pc = "idle"
    /\ Len(yielded) < MaxYields
    /\ clock + duration <= MaxClock
    /\ requestAt' = clock
    /\ UNCHANGED used
    /\ Poll(tm)

\* the task is polled because the timer notified it
Wake ==
    /\ pc = "parked"
    /\ Elapsed
    /\ UNCHANGED <<requestAt, used>>
    /\ Poll("ok")

\* the task is polled although the timer did not notify it
SpuriousPoll ==
    /\ pc = "parked"
    /\ ~Elapsed
    /\ used < MaxDisturb
    /\ used' = used + 1
    /\ UNCHANGED requestAt
    /\ Poll("ok")

\* the timer fails with error e: it notifies the parked task, whose poll
\* finds the error
WakeFailed(e) ==
    /\ pc = "parked"
    /\ used < MaxDisturb
    /\ used' = used + 1
    /\ UNCHANGED requestAt
    /\ Poll(e)

\* the consumer asks for the next value and the timer fails with error e
RequestFailed(e) ==
    /\ used < MaxDisturb
    /\ pc = "idle"
    /\ Len(yielded) < MaxYields
    /\ clock + duration <= MaxClock
    /\ requestAt' = clock
    /\ used' = used + 1
    /\ Poll(e)

(* ------------------------------- clock -------------------------------- *)
Advance ==
    /\ clock < MaxClock
    /\ clock' = clock + 1
    /\ UNCHANGED <<handle, delay, duration, state, pc, result,
                   ctor, lastPoll, requestAt, armedAt, yielded>>

\* time passes while nobody is due to be woken
Tick ==
    /\ \/ handle = "live" /\ pc = "idle"
       \/ handle = "live" /\ pc = "parked" /\ ~Elapsed
       \/ handle = "none" /\ clock < MaxStart
    /\ UNCHANGED used
    /\ Advance

\* time passes between the notification and the poll of the woken task
LateTick ==
    /\ handle = "live"
    /\ pc = "parked" /\ Elapsed
    /\ used < MaxDisturb
    /\ used' = used + 1
    /\ Advance

(* --------------------------- specifications --------------------------- *)
Init ==
    /\ clock = 0
    /\ handle = "none"
    /\ delay = [deadline |-> 0, id |-> 0]
    /\ duration = 0
    /\ state = "Delaying"
    /\ pc = "idle"
    /\ result = NoResult
    /\ ctor = [kind |-> "none", at |-> 0, period |-> 0, clock |-> 0]
    /\ lastPoll = [phase |-> "none", elapsed |-> FALSE]
    /\ used = 0
    /\ requestAt = 0
    /\ armedAt = 0
    /\ yielded = <<>>

\* every schedule: late and spurious polls, timer failures
Next ==
    \/ \E at \in Instants, dur \in Periods : New(at, dur)
    \/ \E dur \in Periods : NewInterval(dur)
    \/ Tick
    \/ LateTick
    \/ Request("ok")
    \/ Wake
    \/ SpuriousPoll
    \/ \E e \in TimerErrors : RequestFailed(e)
    \/ \E e \in TimerErrors : WakeFailed(e)

Spec == Init /\ [][Next]_vars

\* a task that is polled exactly when it asks and when the timer wakes it,
\* without delay, on a timer that does not fail
NextTask ==
    \/ \E at \in Instants, dur \in Periods : New(at, dur)
    \/ \E dur \in Periods : NewInterval(dur)
    \/ Tick
    \/ Request("ok")
    \/ Wake

SpecTask == Init /\ [][NextTask]_vars

FairSpec == SpecTask /\ WF_vars(Tick) /\ WF_vars(Wake)

(* ------------------------------ claims -------------------------------- *)
Produced == Len(yielded)

\* C1: the first value the stream yields is the first_fire_at given to new
C1_FirstValueIsFirstFireAt ==
    Produced >= 1 => yielded[1].value = ctor.at

\* C2: a value requested d >= 0 after the previous one was received is
\* produced exactly one period after the request, so two successive
\* completions are d + period apart, and never less than a period apart
C2_DelayAfterRequest ==
    \A i \in 2..Produced :
        LET d == yielded[i].req - yielded[i-1].at
            gap == yielded[i].at - yielded[i-1].at
        IN /\ d >= 0
           /\ yielded[i].at = yielded[i].req + duration
           /\ gap = d + duration
           /\ gap >= duration

C2_Witness ==
    /\ Produced >= 2
    /\ yielded[2].req > yielded[1].at

\* C3: the yielded instants are strictly increasing, whatever the schedule
C3_StrictlyIncreasing ==
    \A i \in 2..Produced : yielded[i].value > yielded[i-1].value

C3_Witness ==
    /\ Produced >= 2
    /\ used > 0

C5_Scenario ==
    /\ handle = "live"
    /\ duration = 3
    /\ Produced >= 1
    /\ yielded[1].value = 3
    /\ yielded[1].at = 3
    /\ IF Produced >= 2 THEN yielded[2].req = 13
       ELSE pc = "parked" /\ requestAt = 13

\* C5 as claimed: the request at 13 re-arms the timer for 23 and the second
\* value reports 23
C5_RearmsFor23 ==
    C5_Scenario =>
        /\ Produced = 1 => delay.deadline = 23
        /\ Produced >= 2 => yielded[2].value = 23

\* C5 as amended: the request at 13 re-arms the timer for 16 and the second
\* value is produced at 16 and reports 16
C5_RearmsFor16 ==
    C5_Scenario =>
        /\ Produced = 1 => delay.deadline = 16
        /\ Produced >= 2 => yielded[2].value = 16 /\ yielded[2].at = 16

C5_Witness ==
    /\ C5_Scenario
    /\ Produced >= 2

\* C6: the first value of a timer made by new_interval is produced one period
\* after construction, whenever the consumer first polls it
C6_OnePeriodAfterConstruction ==
    ctor.kind = "new_interval" /\ Produced >= 1 =>
        /\ yielded[1].at = ctor.clock + ctor.period
        /\ yielded[1].value = ctor.clock + ctor.period

\* C7: constructing with period 0 fails and no value is ever produced;
\* constructing with period > 0 gives phase Delaying and the deadline armed at
\* first_fire_at
C7_Construction ==
    /\ ctor.kind # "none" /\ ctor.period = 0 =>
           /\ handle = "panicked"
           /\ yielded = <<>>
           /\ result = NoResult
    /\ ctor.kind # "none" /\ ctor.period > 0 =>
           /\ handle = "live"
           /\ duration = ctor.period
           /\ result = NoResult => state = "Delaying" /\ delay.deadline = ctor.at
    /\ ctor.kind = "none" => handle = "none"

C7_Witness ==
    /\ handle = "panicked"
    /\ ctor.kind = "new_interval"

\* C8: a poll during which the timer reports an error returns exactly that
\* error and yields no value, in either phase
C8_ErrorPropagated ==
    [][\A e \in TimerErrors :
          RequestFailed(e) \/ WakeFailed(e) =>
              /\ result' = Err(e)
              /\ yielded' = yielded]_vars

C8_Witness ==
    /\ result = Err("at_capacity")
    /\ lastPoll.phase = "Awaiting"
    /\ lastPoll.elapsed

\* C9: no poll reports the end of the stream, and on a timer that does not
\* fail and wakes the consumer, every request is followed by a value
C9_NeverEndsAndYields ==
    /\ [](result.kind = "Ready" => result.some)
    /\ (pc = "parked") ~> (pc = "idle" /\ result.kind = "Ready" /\ result.some)

C9_Witness ==
    /\ pc = "idle"
    /\ Produced >= 2
    /\ result = ReadySome(yielded[2].value)

Polled ==
    \/ Request("ok")
    \/ Wake
    \/ SpuriousPoll
    \/ \E e \in TimerErrors : RequestFailed(e) \/ WakeFailed(e)

\* C11 as claimed: the phase seen when a value is requested alternates over
\* the produced values: Delaying for the first, Awaiting for the second, ...
C11_PhaseAlternatesPerValue ==
    handle = "live" /\ pc = "idle" =>
        state = IF Produced % 2 = 0 THEN "Delaying" ELSE "Awaiting"

\* C11 as amended: the phase alternates per poll, and a value takes two
\* polls: every request is made in Delaying and re-arms, the consumer waits
\* in Awaiting, and the poll that yields began in Awaiting
C11_PhaseAlternatesPerPoll ==
    /\ handle = "live" /\ pc = "idle" => state = "Delaying"
    /\ pc = "parked" => state = "Awaiting" /\ lastPoll.phase = "Delaying"
    /\ result.kind = "Ready" => lastPoll.phase = "Awaiting"

C11_Witness ==
    /\ Produced >= 1
    /\ pc = "parked"
    /\ lastPoll.phase = "Delaying"

\* C12: a poll in which the timer fails leaves the phase flipped and the
\* re-arm it made in place
C12_ErrorKeepsFlip ==
    [][\A e \in TimerErrors :
          RequestFailed(e) \/ WakeFailed(e) =>
              /\ state = "Delaying" =>
                     /\ state' = "Awaiting"
                     /\ delay'.deadline = clock + duration
              /\ state = "Awaiting" =>
                     /\ state' = "Delaying"
                     /\ delay' = delay]_vars

C12_Witness ==
    /\ result.kind = "Err"
    /\ lastPoll.phase = "Delaying"
    /\ state = "Awaiting"
    /\ delay.deadline = clock + duration
    /\ delay.deadline # ctor.at

C14_AwaitingKeepsDeadline ==
    [][Polled =>
          /\ state = "Awaiting" => delay' = delay /\ state' = "Delaying"
          /\ duration' = duration
          /\ delay'.id = delay.id]_vars

C14_Witness ==
    /\ lastPoll.phase = "Awaiting"
    /\ state = "Delaying"
    /\ result = NotReady

\* C15: a consumer polled at its request and at the timer's wake-up sees,
\* for each value, one not-ready result and then one ready result, and waits
\* on one deadline
C15_OneSuspendPerValue ==
    [][/\ Request("ok") => result' = NotReady /\ pc' = "parked"
       /\ Wake =>
              /\ result' = ReadySome(delay.deadline)
              /\ pc' = "idle"
              /\ delay' = delay
              /\ Len(yielded') = Produced + 1]_vars

C15_Witness ==
    /\ Produced >= 2
    /\ pc = "idle"
    /\ result = ReadySome(yielded[2].req + duration)
    /\ yielded[2].armed = yielded[2].req

C17_NotBeforeReportedInstant ==
    \A i \in 1..Produced : yielded[i].at >= yielded[i].value

C17_Witness ==
    /\ Produced >= 2
    /\ yielded[1].at = yielded[1].value
    /\ yielded[2].at > yielded[2].value

\* C18: a poll of the waiting consumer that returns not-ready changes neither
\* the phase nor the pending deadline: while the consumer waits, both are what
\* its request left, and each value is of the one re-arm made by its request
C18_RepollChangesNothing ==
    /\ pc = "parked" =>
           /\ state = "Awaiting"
           /\ delay.deadline = requestAt + duration
    /\ \A i \in 1..Produced : yielded[i].armed = yielded[i].req

=============================================================================
